---- MODULE Spec2Model ----
(***************************************************************************)
(* Conference synchronisation proxy of telemost-bitrix-app.                *)
(*                                                                         *)
(* The model covers the conferences table of src/database.py and the four  *)
(* /api/conferences routes of src/app.py.  A Python dict is a TLA+         *)
(* function on the set of its keys; Python None and SQL NULL are the       *)
(* string None.  A route answers with a status and a body; the body of a   *)
(* list answer is kept as the set of its conference dicts (the ORDER BY of *)
(* the query does not change which dicts are in it).                       *)
(***************************************************************************)
EXTENDS Integers, Sequences, FiniteSets, TLC

VARIABLES
    conferences,   \* rows of table conferences
    sqlite_seq,    \* AUTOINCREMENT: largest row id ever assigned
    clock,         \* CURRENT_TIMESTAMP, in seconds
    pc,            \* per worker: position in the request it is serving
    local,         \* per worker: local variables of that request
    last,          \* the request answered last: caller, inputs, answer
    origin,        \* history: row id -> where the row came from
    permissions,   \* rows of the Bitrix24 permissions table
    tokens,        \* table bitrix24_tokens: portal domain -> access token
    session        \* the Flask session of the Bitrix24 client

vars == <<conferences, sqlite_seq, clock, pc, local, last, origin,
          permissions, tokens, session>>

\* the state of the Bitrix24 side
crm == <<permissions, tokens, session>>

-----------------------------------------------------------------------------
(* Bounds of the model *)

MaxRows == 2          \* rows ever inserted
MaxClock == 1         \* seconds that pass
MaxRemoteLen == 2     \* records in one remote list

-----------------------------------------------------------------------------
(* Values *)

None == "None"

Users == {"u1", "u2"}

\* workers that serve requests side by side
Workers == {"w1", "w2"}

\* portal domains and the Bitrix24 users of a portal
Domains == {"d1", "d2"}
BitrixUsers == {"1", "2"}

\* a session that holds no Bitrix24 tokens
NoSession == [bitrix_access_token |-> None, bitrix_refresh_token |-> None]

\* user_name request parameter of a caller
UserName(u) == IF u = "u1" THEN "Ann" ELSE "Bob"

\* dict.get(key, default)
Get(d, k, default) == IF k \in DOMAIN d THEN d[k] ELSE default

\* f"https://telemost.yandex.ru/j/{n}"
JLink(n) == "https://telemost.yandex.ru/j/" \o ToString(n)

\* an HTTP request sent to the provider
Request(method, url) == [method |-> method, url |-> url]

\* the URL every conferences endpoint is sent to
ConferencesUrl == "https://cloud-api.yandex.net/v1/telemost-api/conferences"

\* json.dumps / json.loads of the cohosts list: the column holds the text
JsonDumps(v) == [json |-> v]
JsonLoads(t) == t.json

-----------------------------------------------------------------------------
(* src/database.py *)

TypeCheck == {"conference", "broadcast"}

\* a Python bool bound to a BOOLEAN column is stored as 0 or 1; bool(row[i])
\* reads it back
SqlBool(b) == IF b THEN 1 ELSE 0
PyBool(n) == n # 0

\* the INSERT without the UNIQUE constraint on link
InsertRaises_no_unique(rows, d) ==
    \/ ~ ({"name", "type", "ownerId"} \subseteq DOMAIN d)
    \/ d["name"] = None
    \/ d["type"] \notin TypeCheck
    \/ d["ownerId"] = None
    \/ Get(d, "ownerName", "Unknown") = None

\* the INSERT of save_conference raises: a subscripted key is missing, a NOT
\* NULL column gets NULL, the CHECK on type fails, or link is already stored
\* (UNIQUE; NULLs are distinct from each other)
InsertRaises(rows, d) ==
    \/ ~ ({"name", "type", "ownerId"} \subseteq DOMAIN d)
    \/ d["name"] = None
    \/ d["type"] \notin TypeCheck
    \/ d["ownerId"] = None
    \/ Get(d, "ownerName", "Unknown") = None
    \/ /\ Get(d, "link", "") # None
       /\ \E r \in rows : r.link = Get(d, "link", "")

NewRow(id, d, now) ==
    [id |-> id,
     name |-> d["name"],
     type |-> d["type"],
     description |-> Get(d, "description", ""),
     start_date |-> Get(d, "startDate", ""),
     start_time |-> Get(d, "startTime", ""),
     cohosts |-> JsonDumps(Get(d, "cohosts", <<>>)),
     create_calendar_event |-> SqlBool(Get(d, "createCalendarEvent", FALSE)),
     invite_users |-> SqlBool(Get(d, "inviteUsers", FALSE)),
     live_stream_title |-> Get(d, "liveStreamTitle", ""),
     live_stream_description |-> Get(d, "liveStreamDescription", ""),
     owner_id |-> d["ownerId"],
     owner_name |-> Get(d, "ownerName", "Unknown"),
     link |-> Get(d, "link", ""),
     status |-> Get(d, "status", "scheduled"),
     created_at |-> now,
     updated_at |-> now]

\* INSERT OR REPLACE: a row holding the link gives way to the new row
save_conference_replace(rows, seq, d, now) ==
    IF InsertRaises_no_unique(rows, d)
    THEN [raised |-> TRUE, rows |-> rows, seq |-> seq, id |-> 0]
    ELSE [raised |-> FALSE,
          rows |-> {r \in rows : r.link # Get(d, "link", "")}
                       \cup {NewRow(seq + 1, d, now)},
          seq |-> seq + 1,
          id |-> seq + 1]

\* save_conference: the id supplied in conference_data is not among the
\* inserted columns; the row id is the next AUTOINCREMENT value
save_conference(rows, seq, d, now) ==
    IF InsertRaises(rows, d)
    THEN [raised |-> TRUE, rows |-> rows, seq |-> seq, id |-> 0]
    ELSE [raised |-> FALSE,
          rows |-> rows \cup {NewRow(seq + 1, d, now)},
          seq |-> seq + 1,
          id |-> seq + 1]

\* the dict built from a selected row
RowDict(r) ==
    [id |-> r.id,
     name |-> r.name,
     type |-> r.type,
     description |-> r.description,
     startDate |-> r.start_date,
     startTime |-> r.start_time,
     cohosts |-> JsonLoads(r.cohosts),
     createCalendarEvent |-> PyBool(r.create_calendar_event),
     inviteUsers |-> PyBool(r.invite_users),
     liveStreamTitle |-> r.live_stream_title,
     liveStreamDescription |-> r.live_stream_description,
     ownerId |-> r.owner_id,
     ownerName |-> r.owner_name,
     link |-> r.link,
     status |-> r.status,
     createdAt |-> r.created_at]

\* the WHERE owner_id = ? clause left out
get_user_conferences_unfiltered(rows, owner_id) ==
    {RowDict(r) : r \in rows}

get_user_conferences(rows, owner_id) ==
    {RowDict(r) : r \in {x \in rows : x.owner_id = owner_id}}

get_all_conferences(rows) == {RowDict(r) : r \in rows}

\* get_conference_by_id: the dict of the row, as a set of at most one element
\* (the empty set is Python's None)
get_conference_by_id(rows, conf_id) ==
    {RowDict(r) : r \in {x \in rows : x.id = conf_id}}

\* WHERE id = ? with a text parameter that does not read as a number: the
\* INTEGER PRIMARY KEY of no row equals it
get_conference_by_id_text(rows, t) == {}

\* the UPDATE of database.update_conference raises
UpdateRaises(rows, conf_id, d) ==
    \/ ~ ({"name", "type"} \subseteq DOMAIN d)
    \/ /\ \E r \in rows : r.id = conf_id
       /\ \/ d["name"] = None
          \/ d["type"] \notin TypeCheck
          \/ Get(d, "ownerName", "Unknown") = None
          \/ /\ Get(d, "link", "") # None
             /\ \E r \in rows : r.id # conf_id /\ r.link = Get(d, "link", "")

UpdatedRow(r, d, now) ==
    [r EXCEPT
     !.name = d["name"],
     !.type = d["type"],
     !.description = Get(d, "description", ""),
     !.start_date = Get(d, "startDate", ""),
     !.start_time = Get(d, "startTime", ""),
     !.cohosts = JsonDumps(Get(d, "cohosts", <<>>)),
     !.create_calendar_event = SqlBool(Get(d, "createCalendarEvent", FALSE)),
     !.invite_users = SqlBool(Get(d, "inviteUsers", FALSE)),
     !.live_stream_title = Get(d, "liveStreamTitle", ""),
     !.live_stream_description = Get(d, "liveStreamDescription", ""),
     !.owner_name = Get(d, "ownerName", "Unknown"),
     !.link = Get(d, "link", ""),
     !.status = Get(d, "status", "scheduled"),
     !.updated_at = now]

\* database.update_conference(conf_id, conference_data): every column but
\* id, owner_id and created_at is overwritten; the trigger stamps updated_at
database_update_conference(rows, conf_id, d, now) ==
    IF UpdateRaises(rows, conf_id, d)
    THEN [raised |-> TRUE, rows |-> rows, success |-> FALSE]
    ELSE [raised |-> FALSE,
          rows |-> {IF r.id = conf_id THEN UpdatedRow(r, d, now) ELSE r : r \in rows},
          success |-> \E r \in rows : r.id = conf_id]

\* the DELETE without its WHERE clause
database_delete_conference_all(rows, conf_id) ==
    [rows |-> {},
     success |-> rows # {}]

\* database.delete_conference(conf_id)
database_delete_conference(rows, conf_id) ==
    [rows |-> {r \in rows : r.id # conf_id},
     success |-> \E r \in rows : r.id = conf_id]

-----------------------------------------------------------------------------
(* The remote provider: what TelemostAPI.get_conferences can hand back *)

\* an element of a remote JSON list: an object (a dict) or a bare string
Obj(d) == [json |-> "object", d |-> d, s |-> ""]
Str(t) == [json |-> "string", d |-> <<>>, s |-> t]

RawA == Obj([id |-> "r1", name |-> "a", link |-> "L-r1"])
\* the same remote conference later: legacy spellings, renamed, new link
RawA2 == Obj([ID |-> "r1", name |-> "b", LINK |-> "L-r1b"])
\* "link": null
RawN == Obj([id |-> "r2", name |-> "a", link |-> None])
\* an element that is no object
RawX == Str("junk")

RawItems == {RawA, RawA2, RawN, RawX}

\* the remote id of an element, None when it has none
RemoteId(e) == Get(e.d, "id", Get(e.d, "ID", None))

\* the lists the provider can hold: each conference once
RemoteLists ==
    {l \in UNION {[1..n -> RawItems] : n \in 0..MaxRemoteLen} :
        \A i, j \in 1..Len(l) : i # j => RemoteId(l[i]) # RemoteId(l[j])}

\* get_conferences raised (the body was no JSON)
Raised == [kind |-> "raise", keys |-> {}, items |-> <<>>, resultIsList |-> FALSE]
\* a JSON list
JsonList(l) == [kind |-> "list", keys |-> {}, items |-> l, resultIsList |-> FALSE]
\* a JSON object with these keys; under "result" it holds the list l
JsonDict(keys, l) == [kind |-> "dict", keys |-> keys, items |-> l, resultIsList |-> TRUE]
\* {"result": "..."}: the value under "result" is no list
JsonDictText == [kind |-> "dict", keys |-> {"result"}, items |-> <<>>, resultIsList |-> FALSE]

\* what the remote list call can give: the lists bare, the short ones also
\* wrapped under "result" (with or without an "error" key beside it), the
\* error value of the client, an exception, and objects without a list
ListPayloads ==
    {Raised, JsonDictText, JsonDict({}, <<>>), JsonDict({"error", "status_code"}, <<>>)}
    \cup {JsonList(l) : l \in RemoteLists}
    \cup {JsonDict({"result"}, l) : l \in {m \in RemoteLists : Len(m) = 1}}
    \cup {JsonDict({"error", "result"}, l) : l \in {m \in RemoteLists : Len(m) = 1}}

-----------------------------------------------------------------------------
(* src/app.py: GET /api/conferences *)

\* the test for an error value left out
HasError_never(y) == FALSE

\* 'error' in yandex_conferences: a key of a dict, an element of a list
HasError(y) ==
    IF y.kind = "dict" THEN "error" \in y.keys
    ELSE \E i \in 1..Len(y.items) : y.items[i].json = "string" /\ y.items[i].s = "error"

\* conf_data reading the link under the key 'link' only
ConfData_link_only(conf, user_id, user_name) ==
    [id |-> Get(conf, "id", Get(conf, "ID", None)),
     name |-> Get(conf, "name", None),
     type |-> Get(conf, "type", "conference"),
     description |-> Get(conf, "description", ""),
     startDate |-> Get(conf, "start_date", Get(conf, "startDate", "")),
     startTime |-> Get(conf, "start_time", Get(conf, "startTime", "")),
     cohosts |-> Get(conf, "cohosts", Get(conf, "participants", <<>>)),
     createCalendarEvent |->
         Get(conf, "create_calendar_event", Get(conf, "createCalendarEvent", FALSE)),
     inviteUsers |-> Get(conf, "invite_users", Get(conf, "inviteUsers", FALSE)),
     liveStreamTitle |->
         Get(conf, "live_stream_title", Get(conf, "liveStreamTitle", "")),
     liveStreamDescription |->
         Get(conf, "live_stream_description", Get(conf, "liveStreamDescription", "")),
     ownerId |-> user_id,
     ownerName |-> user_name,
     status |-> Get(conf, "status", "scheduled"),
     link |-> Get(conf, "link", ""),
     createdAt |-> Get(conf, "created_at", Get(conf, "createdAt", None))]

\* conf_data built from one raw record conf for the caller
ConfData(conf, user_id, user_name) ==
    [id |-> Get(conf, "id", Get(conf, "ID", None)),
     name |-> Get(conf, "name", None),
     type |-> Get(conf, "type", "conference"),
     description |-> Get(conf, "description", ""),
     startDate |-> Get(conf, "start_date", Get(conf, "startDate", "")),
     startTime |-> Get(conf, "start_time", Get(conf, "startTime", "")),
     cohosts |-> Get(conf, "cohosts", Get(conf, "participants", <<>>)),
     createCalendarEvent |->
         Get(conf, "create_calendar_event", Get(conf, "createCalendarEvent", FALSE)),
     inviteUsers |-> Get(conf, "invite_users", Get(conf, "inviteUsers", FALSE)),
     liveStreamTitle |->
         Get(conf, "live_stream_title", Get(conf, "liveStreamTitle", "")),
     liveStreamDescription |->
         Get(conf, "live_stream_description", Get(conf, "liveStreamDescription", "")),
     ownerId |-> user_id,
     ownerName |-> user_name,
     status |-> Get(conf, "status", "scheduled"),
     link |-> Get(conf, "link", Get(conf, "LINK", "")),
     createdAt |-> Get(conf, "created_at", Get(conf, "createdAt", None))]

\* a turn that hands a stored record with the same link to the caller
SyncOne_reassign(st, e, user_id, user_name, now) ==
    IF e.json # "object"
    THEN [st EXCEPT !.aborted = TRUE]
    ELSE LET d == ConfData(e.d, user_id, user_name)
             sv == save_conference(st.rows, st.seq, d, now)
         IN  IF sv.raised
             THEN [st EXCEPT !.rows =
                      {IF r.link = d["link"] THEN [r EXCEPT !.owner_id = user_id]
                       ELSE r : r \in st.rows}]
             ELSE [st EXCEPT !.rows = sv.rows,
                             !.seq = sv.seq,
                             !.org = (sv.id :> d["id"]) @@ st.org]

\* one turn of "for conf in ...": conf.get on a string raises AttributeError
\* outside the inner try, so the loop is left; a save that raises is passed
SyncOne(st, e, user_id, user_name, now) ==
    IF e.json # "object"
    THEN [st EXCEPT !.aborted = TRUE]
    ELSE LET d == ConfData(e.d, user_id, user_name)
             sv == save_conference(st.rows, st.seq, d, now)
         IN  IF sv.raised
             THEN st
             ELSE [st EXCEPT !.rows = sv.rows,
                             !.seq = sv.seq,
                             !.org = (sv.id :> d["id"]) @@ st.org]

RECURSIVE SyncLoop(_, _, _, _, _, _)
SyncLoop(st, items, i, user_id, user_name, now) ==
    IF i > Len(items) \/ st.aborted
    THEN st
    ELSE SyncLoop(SyncOne(st, items[i], user_id, user_name, now),
                  items, i + 1, user_id, user_name, now)

\* the records the route walks through, if the payload has any
SyncItems(y) ==
    IF y.kind = "list" THEN y.items
    ELSE IF y.kind = "dict" /\ "result" \in y.keys /\ y.resultIsList THEN y.items
    ELSE <<>>

-----------------------------------------------------------------------------
(* State *)

\* last: op and user say which request was answered; token, conf_id, data,
\* failed (the remote list gave an error value or raised) and items (the
\* records the remote list held) are its inputs; status, error, body (the
\* list answered) and conf (the dict answered) are the answer, success the
\* value a repository function returned; result is what the remote client
\* returned to a create, sent the HTTP requests the operation sent to the
\* provider
NoRequest ==
    [op |-> "none", user |-> None, token |-> FALSE, conf_id |-> 0, data |-> <<>>,
     failed |-> FALSE, items |-> <<>>,
     status |-> 0, error |-> FALSE, success |-> FALSE, body |-> {}, conf |-> <<>>,
     result |-> <<>>, sent |-> <<>>]

NoLocal == [user |-> None, data |-> <<>>, conference_data |-> <<>>]

\* requests in flight that are about to insert a row
InFlight == Cardinality({w \in Workers : pc[w] = "save"})

\* the remote list call gave an error value or raised
RemoteFailed(y) == y.kind = "raise" \/ (y.kind = "dict" /\ "error" \in y.keys)

Init ==
    /\ conferences = {}
    /\ sqlite_seq = 0
    /\ clock = 0
    /\ pc = [w \in Workers |-> "ready"]
    /\ local = [w \in Workers |-> NoLocal]
    /\ last = NoRequest
    /\ origin = <<>>
    /\ permissions = {}
    /\ tokens = [d \in Domains |-> None]
    /\ session = NoSession

\* a second passes
Tick ==
    /\ clock < MaxClock
    /\ clock' = clock + 1
    /\ UNCHANGED <<conferences, sqlite_seq, pc, local, last, origin>>
    /\ UNCHANGED crm

\* GET /api/conferences by caller u; yandex_token is whether a token was
\* found, y what the remote answered
get_conferences(u, yandex_token, y) ==
    /\ \E st \in {IF yandex_token /\ y.kind # "raise" /\ ~ HasError(y)
                   THEN SyncLoop([rows |-> conferences, seq |-> sqlite_seq,
                                  aborted |-> FALSE, org |-> origin],
                                 SyncItems(y), 1, u, UserName(u), clock)
                   ELSE [rows |-> conferences, seq |-> sqlite_seq,
                         aborted |-> FALSE, org |-> origin]} :
           /\ st.seq + InFlight <= MaxRows
           /\ conferences' = st.rows
           /\ sqlite_seq' = st.seq
           /\ origin' = st.org
           /\ last' = [NoRequest EXCEPT
                         !.op = "list",
                         !.user = u,
                         !.token = yandex_token,
                         !.failed = yandex_token /\ RemoteFailed(y),
                         !.items = IF yandex_token THEN SyncItems(y) ELSE <<>>,
                         !.sent = IF yandex_token /\ y.kind # "raise"
                                  THEN <<Request("GET", ConferencesUrl)>> ELSE <<>>,
                         !.status = 200,
                         !.body = get_user_conferences(st.rows, u)]
    /\ UNCHANGED <<clock, pc, local>>
    /\ UNCHANGED crm

-----------------------------------------------------------------------------
(* src/models/telemost.py: what api_call('POST', 'conferences', ...) returns *)

\* f"https://telemost.yandex.ru/j/{s}" for a string
JLinkS(t) == "https://telemost.yandex.ru/j/" \o t

\* the dict api_call returns for a 200/201 answer with JSON body b to the
\* request data; createdAt is the client's clock
ApiCallPostResult(b, data, now) ==
    [id |-> Get(b, "id", Get(b, "ID", None)),
     name |-> Get(data, "name", None),
     type |-> Get(data, "type", "conference"),
     description |-> Get(data, "description", ""),
     startDate |-> Get(data, "startDate", ""),
     startTime |-> Get(data, "startTime", ""),
     cohosts |-> Get(data, "cohosts", <<>>),
     createCalendarEvent |-> Get(data, "createCalendarEvent", FALSE),
     inviteUsers |-> Get(data, "inviteUsers", FALSE),
     liveStreamTitle |-> Get(data, "liveStreamTitle", ""),
     liveStreamDescription |-> Get(data, "liveStreamDescription", ""),
     status |-> "scheduled",
     link |-> Get(b, "link", Get(b, "JOIN_URL", Get(b, "join_url",
                  JLinkS(Get(b, "id", Get(b, "ID", "new")))))),
     createdAt |-> now]

\* YANDEX_API_BASE, the base of every other endpoint
ApiBase == "https://telemost.yandex.ru/api/v1"

Methods == {"GET", "POST", "PUT", "DELETE", "PATCH"}

Endpoints == {"conferences", "conferences/1", "user"}

\* 'conferences' in endpoint.lower()
IsConferences(endpoint) == endpoint # "user"

Url(endpoint) ==
    IF IsConferences(endpoint) THEN ConferencesUrl ELSE ApiBase \o "/" \o endpoint

\* data=None, the default of api_call's data argument
NoPayload == [nopayload |-> TRUE]

\* entries of a cohosts list: strings, and an entry that is not a string
CohostStr(t) == [kind |-> "str", v |-> t]
CohostInt == [kind |-> "int", v |-> "5"]

\* '@' in email, for a string entry
HasAt(e) == e.v \in {"ann@x.org", "bob@y.org"}

\* payloads handed to api_call
ClientPayloads ==
    { NoPayload,
      [name |-> "a"],
      [name |-> "b", type |-> "broadcast", liveStreamTitle |-> "t",
       cohosts |-> <<CohostStr("ann@x.org"), CohostStr("room-1"), CohostStr("bob@y.org")>>],
      [name |-> "d", cohosts |-> <<CohostStr("ann@x.org"), CohostInt>>] }

\* [{'email': email} for email in cohosts_data]: the comprehension without
\* its filter
Emails(cohosts_data) ==
    [i \in 1..Len(cohosts_data) |-> [email |-> cohosts_data[i].v]]

\* yandex_format_data without the '@' filter
YandexFormatData_unfiltered(data) ==
    [waiting_room_level |-> "PUBLIC"]
    @@ (IF Get(data, "type", None) = "broadcast"
        THEN [live_stream |->
                 [title |-> Get(data, "liveStreamTitle",
                                Get(data, "live_stream_title", "")),
                  description |-> Get(data, "liveStreamDescription",
                                      Get(data, "live_stream_description", ""))]]
        ELSE <<>>)
    @@ (IF Get(data, "cohosts", <<>>) # <<>>
        THEN [cohosts |-> Emails(Get(data, "cohosts", <<>>))]
        ELSE <<>>)

\* yandex_format_data: the JSON body of a POST to the conferences endpoint
YandexFormatData(data) ==
    [waiting_room_level |-> "PUBLIC"]
    @@ (IF Get(data, "type", None) = "broadcast"
        THEN [live_stream |->
                 [title |-> Get(data, "liveStreamTitle",
                                Get(data, "live_stream_title", "")),
                  description |-> Get(data, "liveStreamDescription",
                                      Get(data, "live_stream_description", ""))]]
        ELSE <<>>)
    @@ (IF Get(data, "cohosts", <<>>) # <<>>
        THEN [cohosts |-> Emails(SelectSeq(Get(data, "cohosts", <<>>), HasAt))]
        ELSE <<>>)

\* building yandex_format_data raises: data.get on None (AttributeError), or
\* '@' in email for an entry that is not a string (TypeError)
PostRaises(data) ==
    \/ data = NoPayload
    \/ \E i \in 1..Len(Get(data, "cohosts", <<>>)) : data["cohosts"][i].kind # "str"

\* the request handed to the requests library
RequestSent(method, endpoint, data) ==
    IF method = "POST" /\ IsConferences(endpoint)
    THEN [method |-> method, url |-> Url(endpoint), json |-> YandexFormatData(data)]
    ELSE IF method \in {"POST", "PUT"}
    THEN [method |-> method, url |-> Url(endpoint), json |-> data]
    ELSE Request(method, Url(endpoint))

\* what the provider does with a request: a status with a JSON body, an empty
\* body or a body that is no JSON, or no answer (RequestException)
HttpOutcomes ==
    { [status |-> 200, body |-> "json"], [status |-> 200, body |-> "empty"],
      [status |-> 200, body |-> "text"], [status |-> 201, body |-> "json"],
      [status |-> 204, body |-> "empty"], [status |-> 404, body |-> "json"],
      [status |-> 0, body |-> "raise"] }

\* the JSON body of an answer
HttpBody == [id |-> "r4", link |-> "L-r1"]

\* response.status_code != 200 and response.status_code != 201
IsErrorStatus(status_code) == status_code # 200 /\ status_code # 201

\* api_call(method, endpoint, access_token, data): whether it raised, the dict
\* returned and the requests sent; access_token is whether the argument, the
\* session or the configuration holds a token. The status code of an error
\* value is written as text, None being one of its values
api_call(method, endpoint, access_token, data, h, now) ==
    IF ~ access_token
    THEN [raised |-> FALSE, result |-> [error |-> "No access token available"],
          sent |-> <<>>]
    ELSE IF method \notin {"GET", "POST", "PUT", "DELETE"}
    THEN [raised |-> FALSE, result |-> [error |-> "Unsupported HTTP method"],
          sent |-> <<>>]
    ELSE IF method = "POST" /\ IsConferences(endpoint) /\ PostRaises(data)
    THEN [raised |-> TRUE, result |-> <<>>, sent |-> <<>>]
    ELSE [raised |-> FALSE,
          sent |-> <<RequestSent(method, endpoint, data)>>,
          result |->
              IF h.body = "raise"
              THEN [error |-> "Request failed", status_code |-> None]
              ELSE IF IsErrorStatus(h.status)
              THEN [error |-> IF h.body = "json" THEN "json"
                              ELSE "Response was not JSON",
                    status_code |-> ToString(h.status)]
              ELSE IF h.body = "empty"
              THEN [success |-> TRUE, status_code |-> h.status]
              ELSE IF h.body = "text"
              THEN [result |-> "text"]
              ELSE IF method = "POST" /\ IsConferences(endpoint)
              THEN ApiCallPostResult(HttpBody, data, now)
              ELSE HttpBody]

\* TelemostAPI.delete_conference(access_token, conf_id)
telemost_delete_conference(access_token, conf_id, h, now) ==
    api_call("DELETE", "conferences/" \o ToString(conf_id), access_token,
             NoPayload, h, now)

\* TelemostAPI.get_conferences(access_token): raise_for_status turns a 4xx or
\* 5xx answer into an error value, a body that is no JSON raises the
\* JSONDecodeError of requests, a RequestException too
telemost_get_conferences(h) ==
    [raised |-> FALSE,
     sent |-> <<Request("GET", ConferencesUrl)>>,
     result |->
         IF h.body = "raise"
         THEN [error |-> "Request failed", status_code |-> None]
         ELSE IF h.status >= 400
         THEN [error |-> "Request failed", status_code |-> ToString(h.status)]
         ELSE IF h.body = "empty" THEN <<>>
         ELSE IF h.body = "text"
         THEN [error |-> "Request failed", status_code |-> None]
         ELSE HttpBody]

\* outcomes of the remote create: an error value, an exception, a JSON body,
\* an empty body
CreateOutcomes ==
    {[kind |-> "error", body |-> <<>>],
     [kind |-> "raise", body |-> <<>>],
     [kind |-> "empty", body |-> <<>>],
     [kind |-> "json", body |-> [id |-> "r4", link |-> "L-r1"]],
     [kind |-> "json", body |-> [ID |-> "r5"]]}

\* request bodies of POST /api/conferences
CreatePayloads ==
    {[name |-> "a"],
     [type |-> "broadcast"]}

-----------------------------------------------------------------------------
(* src/app.py: POST /api/conferences *)

\* conference_data stamped with one fixed owner instead of the caller
ConferenceData_fixed_owner(data, user_id, user_name) ==
    [type |-> Get(data, "type", "conference"),
     name |-> Get(data, "name", None),
     description |-> "",
     startDate |-> "",
     startTime |-> "",
     cohosts |-> Get(data, "cohosts", <<>>),
     createCalendarEvent |-> FALSE,
     inviteUsers |-> FALSE,
     liveStreamTitle |-> "",
     liveStreamDescription |-> "",
     ownerId |-> "u1",
     ownerName |-> "Ann",
     status |-> "scheduled"]

\* the fields of conference_data both branches fill from the request
ConferenceData(data, user_id, user_name) ==
    [type |-> Get(data, "type", "conference"),
     name |-> Get(data, "name", None),
     description |-> "",
     startDate |-> "",
     startTime |-> "",
     cohosts |-> Get(data, "cohosts", <<>>),
     createCalendarEvent |-> FALSE,
     inviteUsers |-> FALSE,
     liveStreamTitle |-> "",
     liveStreamDescription |-> "",
     ownerId |-> user_id,
     ownerName |-> user_name,
     status |-> "scheduled"]

\* the fallback link of a create without token: the caller's row count plus one
FallbackLink(rows, user_id) ==
    JLink(Cardinality(get_user_conferences(rows, user_id)) + 1)

\* no token, first half: worker w builds conference_data for caller u with
\* the fallback link and goes on to save
create_conference_local(w, u, data) ==
    /\ pc[w] = "ready"
    /\ w = "w1" \/ pc["w1"] = "save"      \* idle workers are interchangeable
    /\ sqlite_seq + InFlight < MaxRows
    /\ pc' = [pc EXCEPT ![w] = "save"]
    /\ local' = [local EXCEPT ![w] =
           [user |-> u,
            data |-> data,
            conference_data |->
                ("link" :> FallbackLink(conferences, u))
                    @@ ConferenceData(data, u, UserName(u))]]
    /\ UNCHANGED <<conferences, sqlite_seq, clock, last, origin>>
    /\ UNCHANGED crm

\* no token, second half: a save that raises answers 500, a save that works
\* answers conference_data with the row id
create_conference_save(w) ==
    /\ pc[w] = "save"
    /\ LET l == local[w]
           sv == save_conference(conferences, sqlite_seq, l.conference_data, clock)
       IN  /\ conferences' = sv.rows
           /\ sqlite_seq' = sv.seq
           /\ origin' = IF sv.raised THEN origin ELSE (sv.id :> "local") @@ origin
           /\ last' = [NoRequest EXCEPT
                         !.op = "create",
                         !.user = l.user,
                         !.data = l.data,
                         !.status = IF sv.raised THEN 500 ELSE 200,
                         !.error = sv.raised,
                         !.conf = IF sv.raised THEN <<>>
                                  ELSE ("id" :> sv.id) @@ l.conference_data]
    /\ pc' = [pc EXCEPT ![w] = "ready"]
    /\ local' = [local EXCEPT ![w] = NoLocal]
    /\ UNCHANGED clock
    /\ UNCHANGED crm

\* the remote create gave no conference: api_call returned an error value
\* ('error' in result) or the call raised
CreateFailed_never(o) == FALSE

CreateFailed(o) == o.kind \in {"error", "raise"}

\* what api_call returned when it gave no error: the conference dict built
\* from a JSON body, or the success marker for an empty body
RemoteResult(o, data, now) ==
    IF o.kind = "json"
    THEN ApiCallPostResult(o.body, data, now)
    ELSE [success |-> TRUE, status_code |-> 200]

HasId(result) == "id" \in DOMAIN result \/ "ID" \in DOMAIN result

\* conference_data of the token branch: link and id come from the result,
\* the caller's row count plus one being the last default
RemoteConferenceData(rows, u, data, result) ==
    LET count == Cardinality(get_user_conferences(rows, u)) + 1
    IN  ("link" :> Get(result, "link", Get(result, "LINK",
                       IF HasId(result)
                       THEN JLinkS(Get(result, "id", Get(result, "ID", None)))
                       ELSE JLink(count))))
        @@ ("id" :> Get(result, "id", Get(result, "ID", count)))
        @@ ConferenceData(data, u, UserName(u))

\* the save error of the token branch answered to the caller
SaveAnswer_surfaced(raised, cd, result) ==
    IF raised THEN [status |-> 500, error |-> TRUE, conf |-> <<>>]
    ELSE [status |-> 200, error |-> FALSE, conf |-> cd]

\* the answer of the token branch after the save: conference_data, or the
\* remote result when save_conference raised
SaveAnswer(raised, cd, result) ==
    [status |-> 200, error |-> FALSE, conf |-> IF raised THEN result ELSE cd]

\* token: the remote create gave an error value (400) or api_call raised
\* (500), and the route answers at once; or it succeeded, conference_data
\* takes link and id from the result (the caller's row count plus one being
\* the last default) and is saved: the answer is conference_data, or the
\* remote result when the save raised
create_conference_remote(u, data, o) ==
    LET result == RemoteResult(o, data, clock)
        rid == IF HasId(result) THEN Get(result, "id", Get(result, "ID", None))
               ELSE None
        cd == RemoteConferenceData(conferences, u, data, result)
        sv == save_conference(conferences, sqlite_seq, cd, clock)
    IN  IF CreateFailed(o)
        THEN /\ last' = [NoRequest EXCEPT
                           !.op = "create",
                           !.user = u,
                           !.token = TRUE,
                           !.data = data,
                           !.failed = o.kind \in {"error", "raise"},
                           !.sent = IF o.kind = "raise" THEN <<>>
                                    ELSE <<Request("POST", ConferencesUrl)>>,
                           !.status = IF o.kind = "error" THEN 400 ELSE 500,
                           !.error = TRUE]
             /\ UNCHANGED <<conferences, sqlite_seq, clock, pc, local, origin>>
             /\ UNCHANGED crm
        ELSE /\ sv.seq + InFlight <= MaxRows
             /\ conferences' = sv.rows
             /\ sqlite_seq' = sv.seq
             /\ origin' = IF sv.raised THEN origin ELSE (sv.id :> rid) @@ origin
             /\ last' = [NoRequest EXCEPT
                           !.op = "create",
                           !.user = u,
                           !.token = TRUE,
                           !.data = data,
                           !.failed = o.kind \in {"error", "raise"},
                           !.sent = <<Request("POST", ConferencesUrl)>>,
                           !.result = result,
                           !.status = SaveAnswer(sv.raised, cd, result).status,
                           !.error = SaveAnswer(sv.raised, cd, result).error,
                           !.conf = SaveAnswer(sv.raised, cd, result).conf]
             /\ UNCHANGED <<clock, pc, local>>
             /\ UNCHANGED crm

-----------------------------------------------------------------------------
(* src/app.py: DELETE and PUT /api/conferences/<conf_id> *)

\* request bodies of PUT /api/conferences/<conf_id>
UpdatePayloads == {[name |-> "c", type |-> "conference"], [name |-> "c"]}

\* Inside create_app the name delete_conference is the route itself, not the
\* function imported from database: the call at line 556 re-enters the route
\* until the interpreter's recursion limit, the innermost frames answer 500,
\* and every frame above them sees a truthy return value and answers
\* success.  No row is touched.
delete_conference(conf_id) ==
    /\ last' =
           [NoRequest EXCEPT !.op = "delete",
                              !.conf_id = conf_id,
                              !.status = 200]
    /\ UNCHANGED <<conferences, sqlite_seq, clock, pc, local, origin>>
    /\ UNCHANGED crm

\* outcomes of the remote update: api_call returned a result, returned an
\* error value, or raised
UpdateOutcomes == {"ok", "error", "raise"}

\* the route answering a failed remote update instead of going on
UpdateRoute_remote_first(rows, conf_id, data, yandex_token, o, now) ==
    IF yandex_token /\ o # "ok"
    THEN [rows |-> rows, status |-> 502, error |-> TRUE, conf |-> <<>>]
    ELSE [rows |-> rows, status |-> 500, error |-> TRUE, conf |-> <<>>]

\* PUT as a function of the repository and the request: the result of the
\* remote update is dropped (an exception by the bare except), then the call
\* at line 591 raises and line 598 answers 500
UpdateRoute(rows, conf_id, data, yandex_token, o, now) ==
    [rows |-> rows, status |-> 500, error |-> TRUE, conf |-> <<>>]

\* Inside create_app the name update_conference is the route itself, which
\* takes one argument: the call at line 591 with two raises TypeError, and
\* the route answers 500 whatever the remote update did.  No row is touched.
update_conference(conf_id, data, yandex_token, o) ==
    /\ yandex_token \/ o = "ok"          \* without a token nothing is called
    /\ LET r == UpdateRoute(conferences, conf_id, data, yandex_token, o, clock)
       IN  /\ conferences' = r.rows
           /\ last' =
                  [NoRequest EXCEPT !.op = "update",
                                     !.token = yandex_token,
                                     !.conf_id = conf_id,
                                     !.data = data,
                                     !.failed = yandex_token /\ o # "ok",
                                     !.sent = IF yandex_token /\ o # "raise"
                                              THEN <<Request("PUT", ConferencesUrl)>>
                                              ELSE <<>>,
                                     !.status = r.status,
                                     !.error = r.error,
                                     !.conf = r.conf]
    /\ UNCHANGED <<sqlite_seq, clock, pc, local, origin>>
    /\ UNCHANGED crm

-----------------------------------------------------------------------------
(* Specification *)

Next ==
    \/ \E u \in Users : get_conferences(u, FALSE, JsonList(<<>>))
    \/ \E u \in Users, y \in ListPayloads : get_conferences(u, TRUE, y)
    \/ \E w \in Workers, u \in Users, data \in CreatePayloads :
           create_conference_local(w, u, data)
    \/ \E w \in Workers : create_conference_save(w)
    \/ \E u \in Users, data \in CreatePayloads, o \in CreateOutcomes :
           create_conference_remote(u, data, o)
    \/ \E conf_id \in 1..MaxRows : delete_conference(conf_id)
    \/ \E conf_id \in 1..MaxRows, data \in UpdatePayloads, yandex_token \in BOOLEAN,
          o \in UpdateOutcomes :
           update_conference(conf_id, data, yandex_token, o)

Spec == Init /\ [][Next]_vars

-----------------------------------------------------------------------------
(* The repository on its own: the functions of src/database.py called      *)
(* directly, one after the other, while time passes.  Under Spec all       *)
(* requests fall into one second of CURRENT_TIMESTAMP: no route reads a    *)
(* timestamp.                                                              *)

\* conference_data handed to save_conference and database.update_conference
RepoPayloads ==
    {[name |-> "a", type |-> "conference", ownerId |-> "u1", ownerName |-> "Ann",
      link |-> "L-r1"],
     [name |-> "b", type |-> "broadcast", ownerId |-> "u2", ownerName |-> "Bob",
      link |-> "L-r1b", description |-> "d", status |-> "live",
      inviteUsers |-> TRUE],
     [id |-> 7, name |-> "c", type |-> "conference", ownerId |-> "u1",
      ownerName |-> "Ann", link |-> "L-r7"],
     [name |-> "X"]}

repo_save(d) ==
    /\ sqlite_seq < MaxRows
    /\ LET sv == save_conference(conferences, sqlite_seq, d, clock)
       IN  /\ conferences' = sv.rows
           /\ sqlite_seq' = sv.seq
           /\ origin' = IF sv.raised THEN origin ELSE (sv.id :> "local") @@ origin
           /\ last' = [NoRequest EXCEPT
                         !.op = "save",
                         !.conf_id = sv.id,
                         !.data = d,
                         !.error = sv.raised,
                         !.success = ~ sv.raised,
                         !.body = get_conference_by_id(sv.rows, sv.id)]
    /\ UNCHANGED <<clock, pc, local>>
    /\ UNCHANGED crm

repo_update(conf_id, d) ==
    /\ LET upd == database_update_conference(conferences, conf_id, d, clock)
       IN  /\ conferences' = upd.rows
           /\ last' = [NoRequest EXCEPT
                         !.op = "db_update",
                         !.conf_id = conf_id,
                         !.data = d,
                         !.error = upd.raised,
                         !.success = upd.success,
                         !.body = get_conference_by_id(upd.rows, conf_id)]
    /\ UNCHANGED <<sqlite_seq, clock, pc, local, origin>>
    /\ UNCHANGED crm

repo_delete(conf_id) ==
    /\ LET del == database_delete_conference(conferences, conf_id)
       IN  /\ conferences' = del.rows
           /\ last' = [NoRequest EXCEPT
                         !.op = "db_delete",
                         !.conf_id = conf_id,
                         !.success = del.success,
                         !.body = get_conference_by_id(del.rows, conf_id)]
    /\ UNCHANGED <<sqlite_seq, clock, pc, local, origin>>
    /\ UNCHANGED crm

RepoNext ==
    \/ Tick
    \/ \E d \in RepoPayloads : repo_save(d)
    \/ \E conf_id \in 1..MaxRows, d \in RepoPayloads : repo_update(conf_id, d)
    \/ \E conf_id \in 1..MaxRows : repo_delete(conf_id)

RepoSpec == Init /\ [][RepoNext]_vars

-----------------------------------------------------------------------------
(* The client of the provider on its own: api_call and the delete wrapper  *)
(* of src/models/telemost.py called directly, beside the DELETE route.     *)

client_api_call(method, endpoint, access_token, data, h) ==
    /\ LET r == api_call(method, endpoint, access_token, data, h, clock)
       IN  last' = [NoRequest EXCEPT
                      !.op = "api_call",
                      !.token = access_token,
                      !.data = [method |-> method, endpoint |-> endpoint,
                                data |-> data, outcome |-> h],
                      !.error = r.raised,
                      !.failed = "error" \in DOMAIN r.result,
                      !.result = r.result,
                      !.sent = r.sent]
    /\ UNCHANGED <<conferences, sqlite_seq, clock, pc, local, origin>>
    /\ UNCHANGED crm

client_delete_conference(access_token, conf_id, h) ==
    /\ LET r == telemost_delete_conference(access_token, conf_id, h, clock)
       IN  last' = [NoRequest EXCEPT
                      !.op = "client_delete",
                      !.token = access_token,
                      !.conf_id = conf_id,
                      !.error = r.raised,
                      !.failed = "error" \in DOMAIN r.result,
                      !.result = r.result,
                      !.sent = r.sent]
    /\ UNCHANGED <<conferences, sqlite_seq, clock, pc, local, origin>>
    /\ UNCHANGED crm

client_get_conferences(h) ==
    /\ LET r == telemost_get_conferences(h)
       IN  last' = [NoRequest EXCEPT
                      !.op = "client_list",
                      !.token = TRUE,
                      !.data = [outcome |-> h],
                      !.error = r.raised,
                      !.failed = "error" \in DOMAIN r.result,
                      !.result = r.result,
                      !.sent = r.sent]
    /\ UNCHANGED <<conferences, sqlite_seq, clock, pc, local, origin>>
    /\ UNCHANGED crm

ClientNext ==
    \/ Tick
    \/ \E method \in Methods, endpoint \in Endpoints, access_token \in BOOLEAN,
          data \in ClientPayloads, h \in HttpOutcomes :
           client_api_call(method, endpoint, access_token, data, h)
    \/ \E access_token \in BOOLEAN, conf_id \in 1..MaxRows, h \in HttpOutcomes :
           client_delete_conference(access_token, conf_id, h)
    \/ \E h \in HttpOutcomes : client_get_conferences(h)
    \/ \E conf_id \in 1..MaxRows : delete_conference(conf_id)

ClientSpec == Init /\ [][ClientNext]_vars

(***************************************************************************)
(* src/app.py: conf_data, the record built from one raw remote record      *)
(***************************************************************************)
\* the fields conf.get probes under two keys: the key probed first and the
\* key probed second
Spellings ==
    [id |-> <<"id", "ID">>,
     startDate |-> <<"start_date", "startDate">>,
     startTime |-> <<"start_time", "startTime">>,
     cohosts |-> <<"cohosts", "participants">>,
     createCalendarEvent |-> <<"create_calendar_event", "createCalendarEvent">>,
     inviteUsers |-> <<"invite_users", "inviteUsers">>,
     liveStreamTitle |-> <<"live_stream_title", "liveStreamTitle">>,
     liveStreamDescription |-> <<"live_stream_description", "liveStreamDescription">>,
     link |-> <<"link", "LINK">>,
     createdAt |-> <<"created_at", "createdAt">>]

\* the default conf.get falls back to when neither key is present
Default(f) ==
    CASE f \in {"id", "createdAt"} -> None
      [] f = "cohosts" -> <<>>
      [] f \in {"createCalendarEvent", "inviteUsers"} -> FALSE
      [] OTHER -> ""

\* two values of a field that differ from each other and from the default
Value(f, n) ==
    CASE f = "cohosts" -> IF n = 1 THEN <<"ann@x.org">> ELSE <<"bob@y.org", "room-1">>
      [] f \in {"createCalendarEvent", "inviteUsers"} -> n = 1
      [] OTHER -> f \o "-" \o ToString(n)

\* how a raw record spells a field
Choices == {"absent", "first", "second", "both"}

\* the part of a raw record that holds field f
RawField(f, c) ==
    CASE c = "absent" -> <<>>
      [] c = "first" -> (Spellings[f][1] :> Value(f, 1))
      [] c = "second" -> (Spellings[f][2] :> Value(f, 1))
      [] OTHER -> (Spellings[f][1] :> Value(f, 1)) @@ (Spellings[f][2] :> Value(f, 2))

\* the raw records normalized: a name and two fields, each spelled one way
NormInit ==
    /\ conferences = {}
    /\ sqlite_seq = 0
    /\ clock = 0
    /\ pc = [w \in Workers |-> "ready"]
    /\ local = [w \in Workers |-> NoLocal]
    /\ origin = <<>>
    /\ permissions = {}
    /\ tokens = [d \in Domains |-> None]
    /\ session = NoSession
    /\ \E u \in Users, f \in DOMAIN Spellings, g \in DOMAIN Spellings,
          c \in Choices, d \in Choices :
           /\ f # g
           /\ last = [NoRequest EXCEPT
                        !.op = "raw",
                        !.user = u,
                        !.data = [raw |-> [name |-> "a"] @@ RawField(f, c) @@ RawField(g, d),
                                  f |-> f, c |-> c, g |-> g, d |-> d]]

\* the loop body up to conf_data
normalize ==
    /\ last.op = "raw"
    /\ last' = [last EXCEPT
                  !.op = "normalize",
                  !.conf = ConfData(last.data.raw, last.user, UserName(last.user))]
    /\ UNCHANGED <<conferences, sqlite_seq, clock, pc, local, origin>>
    /\ UNCHANGED crm

NormNext == normalize

NormSpec == NormInit /\ [][NormNext]_vars

(***************************************************************************)
(* src/models/bitrix24.py: Bitrix24API                                     *)
(***************************************************************************)
\* the configuration: a webhook URL, or a portal domain in the session or
\* the configuration, or neither
Configs == {"webhook", "oauth", "none"}

\* answers to a REST request: a JSON object with a result, one whose error
\* is expired_token, one with another error, a body that is no JSON, and a
\* failed request (status of raise_for_status, network)
RestOutcomes == {"ok", "expired", "error", "nojson", "failed"}

\* the JSON object of an answer
RestBody(h) ==
    CASE h = "ok" -> [result |-> "value"]
      [] h = "expired" -> [error |-> "expired_token"]
      [] OTHER -> [error |-> "other"]

\* answers to the token request: new tokens, a JSON object without them, and
\* a failed request
RefreshOutcomes == {"tokens", "notokens", "failed"}

\* a REST request and the token request, as handed to requests.post
RestRequest(auth) == [url |-> "rest", auth |-> auth]
TokenRequest(refresh_token) == [url |-> "oauth/token", auth |-> refresh_token]

\* refresh_tokens(): None (the empty function here) without a refresh token
\* or client credentials and when the request fails; else token_data, whose
\* tokens replace those of the session
refresh_tokens(sess, creds, hr) ==
    IF sess.bitrix_refresh_token = None \/ ~ creds
    THEN [result |-> <<>>, session |-> sess, sent |-> <<>>]
    ELSE IF hr = "failed"
    THEN [result |-> <<>>, session |-> sess,
          sent |-> <<TokenRequest(sess.bitrix_refresh_token)>>]
    ELSE LET token_data == IF hr = "tokens"
                           THEN [access_token |-> "a1", refresh_token |-> "r1"]
                           ELSE [error |-> "invalid_grant"]
         IN  [result |-> token_data,
              session |-> [bitrix_access_token |-> Get(token_data, "access_token", None),
                           bitrix_refresh_token |-> Get(token_data, "refresh_token", None)],
              sent |-> <<TokenRequest(sess.bitrix_refresh_token)>>]

\* a retry that sends the token of the first request again
RetryAuth_stale(auth, refresh_result) == auth

\* params['auth'] = refresh_result['access_token']
RetryAuth(auth, refresh_result) == refresh_result.access_token

\* the answer to one request: the JSON object, or the error value of the
\* except clauses
RestResult(h) ==
    IF h = "failed" THEN [error |-> "Request failed"]
    ELSE IF h = "nojson" THEN [error |-> "Invalid JSON response"]
    ELSE RestBody(h)

\* call_method(method, params, use_auth): the value returned, the requests
\* sent in order, and the session afterwards
call_method(cfg, creds, use_auth, sess, h1, hr, h2) ==
    LET auth == IF use_auth /\ cfg # "webhook" THEN sess.bitrix_access_token
                ELSE None
        rf == refresh_tokens(sess, creds, hr)
    IN  IF cfg = "none"
        THEN [result |-> [error |-> "No Bitrix24 URL configured"],
              sent |-> <<>>, session |-> sess]
        ELSE IF use_auth /\ cfg # "webhook" /\ sess.bitrix_access_token = None
        THEN [result |-> [error |-> "No access token available"],
              sent |-> <<>>, session |-> sess]
        ELSE IF h1 # "expired"
        THEN [result |-> RestResult(h1),
              sent |-> <<RestRequest(auth)>>, session |-> sess]
        ELSE IF "access_token" \notin DOMAIN rf.result
        THEN [result |-> RestBody(h1),
              sent |-> <<RestRequest(auth)>> \o rf.sent, session |-> rf.session]
        ELSE [result |-> RestResult(h2),
              sent |-> <<RestRequest(auth)>> \o rf.sent
                       \o <<RestRequest(RetryAuth(auth, rf.result))>>,
              session |-> [rf.session EXCEPT
                             !.bitrix_access_token = rf.result.access_token]]

\* set_auth_data(auth_data): the tokens of an authorization are stored in the
\* session
set_auth_data(access_token, refresh_token) ==
    /\ session' = [bitrix_access_token |-> access_token,
                   bitrix_refresh_token |-> refresh_token]
    /\ last' = [NoRequest EXCEPT !.op = "set_auth_data"]
    /\ UNCHANGED <<conferences, sqlite_seq, clock, pc, local, origin>>
    /\ UNCHANGED <<permissions, tokens>>

\* the answer to the n-th request of a call, "unsent" when the call sent
\* fewer requests
Answer(sent, n, h) == IF n <= Len(sent) THEN h ELSE "unsent"

bitrix_call_method(cfg, creds, use_auth, h1, hr, h2) ==
    /\ LET r == call_method(cfg, creds, use_auth, session, h1, hr, h2)
       IN  /\ session' = r.session
           /\ last' = [NoRequest EXCEPT
                         !.op = "call_method",
                         !.data = [cfg |-> cfg, creds |-> creds, use_auth |-> use_auth,
                                   h1 |-> Answer(r.sent, 1, h1),
                                   hr |-> Answer(r.sent, 2, hr),
                                   h2 |-> Answer(r.sent, 3, h2),
                                   session |-> session],
                         !.failed = "error" \in DOMAIN r.result,
                         !.result = r.result,
                         !.sent = r.sent]
    /\ UNCHANGED <<conferences, sqlite_seq, clock, pc, local, origin>>
    /\ UNCHANGED <<permissions, tokens>>

BitrixNext ==
    \/ \E access_token \in {None, "a0"}, refresh_token \in {None, "r0"} :
           set_auth_data(access_token, refresh_token)
    \/ \E cfg \in Configs, creds \in BOOLEAN, use_auth \in BOOLEAN,
          h1 \in RestOutcomes, hr \in RefreshOutcomes, h2 \in RestOutcomes :
           bitrix_call_method(cfg, creds, use_auth, h1, hr, h2)

BitrixSpec == Init /\ [][BitrixNext]_vars

(***************************************************************************)
(* src/web/bitrix24_permissions.py and src/web/bitrix24_integration.py.    *)
(* The permission table is kept by src/core/database.py, which the sources *)
(* import; a row is a portal domain, a user and a role, one row per portal *)
(* and user (its user name and creator are read by none of the handlers).  *)
(***************************************************************************)
\* check_bitrix24_permission(domain, user_id): the rows of that user
check_bitrix24_permission(rows, domain, user_id) ==
    {p \in rows : p.domain = domain /\ p.user_id = user_id}

\* get_bitrix24_permissions(domain)
get_bitrix24_permissions(rows, domain) == {p \in rows : p.domain = domain}

\* add_bitrix24_permission(domain, user_id, user_name, role, created_by)
add_bitrix24_permission(rows, domain, user_id, role) ==
    (rows \ check_bitrix24_permission(rows, domain, user_id))
    \cup {[domain |-> domain, user_id |-> user_id, role |-> role]}

\* remove_bitrix24_permission(domain, user_id)
remove_bitrix24_permission(rows, domain, user_id) ==
    [rows |-> rows \ check_bitrix24_permission(rows, domain, user_id),
     success |-> check_bitrix24_permission(rows, domain, user_id) # {}]

\* not caller_permission or caller_permission['role'] != 'admin'
NotAdmin(rows, domain, caller) ==
    \A p \in check_bitrix24_permission(rows, domain, caller) : p.role # "admin"

\* the fields of a request body: a value or missing
MaybeDomains == Domains \cup {None}
MaybeUsers == BitrixUsers \cup {None}
Roles == {"admin", "observer", "owner"}

\* POST /add
add_permission(domain, user_id, role, created_by) ==
    LET status == IF domain = None \/ user_id = None THEN 400
                  ELSE IF created_by # None /\ NotAdmin(permissions, domain, created_by)
                  THEN 403
                  ELSE IF role \notin {"admin", "observer"} THEN 400
                  ELSE 200
    IN  /\ permissions' = IF status = 200
                          THEN add_bitrix24_permission(permissions, domain, user_id, role)
                          ELSE permissions
        /\ last' = [NoRequest EXCEPT
                      !.op = "add_permission",
                      !.user = created_by,
                      !.data = [domain |-> domain, user_id |-> user_id, role |-> role],
                      !.status = status,
                      !.success = status = 200,
                      !.error = status # 200]
        /\ UNCHANGED <<conferences, sqlite_seq, clock, pc, local, origin>>
        /\ UNCHANGED <<tokens, session>>

\* DELETE /remove
remove_permission(domain, user_id, caller_id) ==
    LET rm == remove_bitrix24_permission(permissions, domain, user_id)
        status == IF domain = None \/ user_id = None THEN 400
                  ELSE IF caller_id # None /\ NotAdmin(permissions, domain, caller_id)
                  THEN 403
                  ELSE IF rm.success THEN 200
                  ELSE 404
    IN  /\ permissions' = IF status = 200 THEN rm.rows ELSE permissions
        /\ last' = [NoRequest EXCEPT
                      !.op = "remove_permission",
                      !.user = caller_id,
                      !.data = [domain |-> domain, user_id |-> user_id],
                      !.status = status,
                      !.success = status = 200,
                      !.error = status # 200]
        /\ UNCHANGED <<conferences, sqlite_seq, clock, pc, local, origin>>
        /\ UNCHANGED <<tokens, session>>

PermNext ==
    \/ \E domain \in MaybeDomains, user_id \in MaybeUsers, role \in Roles,
          created_by \in MaybeUsers :
           add_permission(domain, user_id, role, created_by)
    \/ \E domain \in MaybeDomains, user_id \in MaybeUsers, caller_id \in MaybeUsers :
           remove_permission(domain, user_id, caller_id)

PermSpec == Init /\ [][PermNext]_vars

\* the start of handle_install, handle_index and handle_app for a request
\* that carries a domain and a token: save_tokens, then add_initial_admin up
\* to the answer of user.current; current_user is None when that answer holds
\* an error or no user or the request fails, and add_initial_admin returns;
\* last names the handler entered
StartHandler(w, domain, auth_id, current_user) ==
    /\ pc[w] = "ready"
    /\ tokens' = [tokens EXCEPT ![domain] = auth_id]
    /\ IF current_user = None
       THEN UNCHANGED <<pc, local>>
       ELSE /\ pc' = [pc EXCEPT ![w] = "existing"]
            /\ local' = [local EXCEPT
                           ![w] = [domain |-> domain, user_id |-> current_user,
                                   existing |-> {}]]
    /\ UNCHANGED <<conferences, sqlite_seq, clock, origin, permissions, session>>

handle_install(w, domain, auth_id, current_user) ==
    /\ StartHandler(w, domain, auth_id, current_user)
    /\ last' = [NoRequest EXCEPT !.op = "install", !.status = 200]

handle_index(w, domain, auth_id, current_user) ==
    /\ StartHandler(w, domain, auth_id, current_user)
    /\ last' = [NoRequest EXCEPT !.op = "index", !.status = 302]

handle_app(w, domain, auth_id, current_user) ==
    /\ StartHandler(w, domain, auth_id, current_user)
    /\ last' = [NoRequest EXCEPT !.op = "app", !.status = 200]

\* add_initial_admin: existing = get_bitrix24_permissions(domain)
add_initial_admin_existing(w) ==
    /\ pc[w] = "existing"
    /\ local' = [local EXCEPT
                   ![w].existing = get_bitrix24_permissions(permissions, local[w].domain)]
    /\ pc' = [pc EXCEPT ![w] = "add"]
    /\ UNCHANGED <<conferences, sqlite_seq, clock, last, origin>>
    /\ UNCHANGED crm

\* add_initial_admin: if len(existing) == 0, add_bitrix24_permission
add_initial_admin_add(w) ==
    /\ pc[w] = "add"
    /\ permissions' = IF local[w].existing = {}
                      THEN add_bitrix24_permission(permissions, local[w].domain,
                                                   local[w].user_id, "admin")
                      ELSE permissions
    /\ pc' = [pc EXCEPT ![w] = "ready"]
    /\ local' = [local EXCEPT ![w] = NoLocal]
    /\ UNCHANGED <<conferences, sqlite_seq, clock, last, origin>>
    /\ UNCHANGED <<tokens, session>>

InstallNext ==
    \/ \E w \in Workers, domain \in Domains, current_user \in MaybeUsers :
           \/ handle_install(w, domain, "t1", current_user)
           \/ handle_index(w, domain, "t2", current_user)
           \/ handle_app(w, domain, "t2", current_user)
    \/ \E w \in Workers : add_initial_admin_existing(w)
    \/ \E w \in Workers : add_initial_admin_add(w)

InstallSpec == Init /\ [][InstallNext]_vars

-----------------------------------------------------------------------------
(* Properties *)

\* a request was answered in this step: list, create, delete or update
Answered(op) == last'.op = op /\ (last' # last \/ conferences' # conferences)

\* a remote record the repository accepts on its own: an object with a
\* name, a valid type and a link
WellFormed(e) ==
    /\ e.json = "object"
    /\ Get(e.d, "name", None) # None
    /\ Get(e.d, "type", "conference") \in TypeCheck
    /\ Get(e.d, "link", Get(e.d, "LINK", "")) \notin {None, ""}

\* C1: whatever requests were served, get_user_conferences(U) holds only
\* conferences whose ownerId is U, and so does every answer of
\* GET /api/conferences to caller U.
C1_OwnerIsolation ==
    /\ \A u \in Users : \A c \in get_user_conferences(conferences, u) : c.ownerId = u
    /\ last.op = "list" => \A c \in last.body : c.ownerId = last.user

\* a list that reached the remote was answered with the caller's own
\* conferences while the remote list also held a conference stored for
\* another caller
C1_Witness ==
    /\ last.op = "list" /\ last.token /\ ~ last.failed
    /\ last.body # {}
    /\ \E i \in 1..Len(last.items) : \E r \in conferences :
           /\ WellFormed(last.items[i])
           /\ r.link = Get(last.items[i].d, "link", Get(last.items[i].d, "LINK", ""))
           /\ r.owner_id # last.user

\* C2: a create without token that is answered with success returns status
\* "scheduled", the caller as ownerId, the id of the stored row, and the link
\* ".../j/<that id>".
C2_CreateWithoutToken ==
    (last.op = "create" /\ ~ last.token /\ last.status = 200) =>
        /\ last.conf.status = "scheduled"
        /\ last.conf.ownerId = last.user
        /\ \E r \in conferences : r.id = last.conf.id /\ r.link = last.conf.link
        /\ last.conf.link = JLink(last.conf.id)

\* C3: a create without token (with a name) by one caller, served while the
\* repository holds a conference created without token by another caller,
\* succeeds, and its id and link differ from that conference's.
C3_NoCollision ==
    \A r \in conferences :
        (/\ last.op = "create" /\ ~ last.token
         /\ "name" \in DOMAIN last.data
         /\ origin[r.id] = "local"
         /\ r.owner_id # last.user)
        => /\ last.status = 200
           /\ last.conf.id # r.id
           /\ last.conf.link # r.link

\* C4: no two stored conferences have the same link.
C4_LinkUnique ==
    \A a, b \in conferences : a.id # b.id => a.link # b.link

\* Conferences that have a link have different links; only rows whose link
\* is NULL can share it.
LinkUniqueAmongLinked ==
    \A a, b \in conferences : (a.id # b.id /\ a.link # None) => a.link # b.link

\* C5: DELETE /api/conferences/<id> removes the row with that id and answers
\* success when the row is stored; it answers 404 and changes nothing when
\* it is not.
C5_Delete ==
    [][Answered("delete") =>
         IF \E r \in conferences : r.id = last'.conf_id
         THEN /\ last'.status = 200
              /\ conferences' = {r \in conferences : r.id # last'.conf_id}
         ELSE /\ last'.status = 404
              /\ conferences' = conferences]_vars

\* C6: PUT /api/conferences/<id> with a payload the repository accepts
\* applies the repository update; it answers 404 when no row has the id,
\* and the row read back after the update when one has.
C6_Update ==
    [][(/\ Answered("update")
        /\ ~ database_update_conference(conferences, last'.conf_id,
                                        last'.data, clock).raised)
       => LET upd == database_update_conference(conferences, last'.conf_id,
                                                last'.data, clock)
          IN  /\ conferences' = upd.rows
              /\ IF upd.success
                 THEN /\ last'.status = 200
                      /\ {last'.conf} = get_conference_by_id(upd.rows, last'.conf_id)
                 ELSE last'.status = 404]_vars

\* C7: a list request that finds no token, or whose remote call gave an
\* error value or raised, is answered with get_user_conferences(U) of the
\* repository as it was, and leaves the repository as it was.
C7_ListFallback ==
    [][(Answered("list") /\ (~ last'.token \/ last'.failed))
       => /\ conferences' = conferences
          /\ sqlite_seq' = sqlite_seq
          /\ last'.body = get_user_conferences(conferences, last'.user)]_vars

\* the remote answered with an error beside a list holding a conference
\* that is not stored, and the caller got the conferences stored for them
C7_Witness ==
    /\ last.op = "list" /\ last.token /\ last.failed
    /\ last.body # {}
    /\ \E i \in 1..Len(last.items) :
           /\ WellFormed(last.items[i])
           /\ \A r \in conferences :
                  r.link # Get(last.items[i].d, "link", Get(last.items[i].d, "LINK", ""))

\* C8: after a list that reached the remote and got a list of objects, every
\* well-formed record of that list is in the answer, stored with the caller
\* as ownerId.
C8_ListAttribution ==
    (/\ last.op = "list" /\ last.token /\ ~ last.failed
     /\ \A i \in 1..Len(last.items) : last.items[i].json = "object")
    => \A i \in 1..Len(last.items) :
           WellFormed(last.items[i]) =>
               \E c \in last.body :
                   /\ c.ownerId = last.user
                   /\ c.name = last.items[i].d["name"]
                   /\ c.link = Get(last.items[i].d, "link",
                                   Get(last.items[i].d, "LINK", ""))

\* C9: list sync is keyed by the remote id: no two stored conferences come
\* from remote records with the same id.
C9_UpsertByRemoteId ==
    \A a, b \in conferences :
        (origin[a.id] = origin[b.id] /\ origin[a.id] \notin {None, "local"})
        => a.id = b.id

\* C10: after a list that reached the remote and got a list, every
\* well-formed record of the list has its link stored (it was saved now or
\* an earlier row holds the link), whatever else the list held, and the
\* answer is get_user_conferences(U).
C10_BatchContinuation ==
    [][(Answered("list") /\ last'.token /\ ~ last'.failed)
       => /\ \A i \in 1..Len(last'.items) :
                 WellFormed(last'.items[i]) =>
                     \E r \in conferences' :
                         r.link = Get(last'.items[i].d, "link",
                                      Get(last'.items[i].d, "LINK", ""))
          /\ last'.body = get_user_conferences(conferences', last'.user)]_vars

\* When the remote list holds objects only, a save that raises is passed
\* over and the other records are still saved.
BatchContinuationAmongObjects ==
    [][(/\ Answered("list") /\ last'.token /\ ~ last'.failed
        /\ \A i \in 1..Len(last'.items) : last'.items[i].json = "object")
       => \A i \in 1..Len(last'.items) :
              WellFormed(last'.items[i]) =>
                  \E r \in conferences' :
                      r.link = Get(last'.items[i].d, "link",
                                   Get(last'.items[i].d, "LINK", ""))]_vars

\* C11: a create with a token whose remote call gave an error value or
\* raised is answered with an error and status 400 or 500, and stores
\* nothing.
C11_CreateRemoteError ==
    [][(Answered("create") /\ last'.token /\ last'.failed)
       => /\ last'.error
          /\ last'.status \in {400, 500}
          /\ last'.conf = <<>>
          /\ conferences' = conferences
          /\ sqlite_seq' = sqlite_seq]_vars

\* the remote refused a create while the repository held conferences
C11_Witness ==
    /\ last.op = "create" /\ last.token /\ last.failed
    /\ last.status = 400
    /\ conferences # {}

\* C12: a create with a token whose remote call succeeded and whose
\* save_conference raised is answered 200, without error, with the dict the
\* remote client returned, and stores nothing.
C12_SaveFailureNotSurfaced ==
    [][(/\ Answered("create") /\ last'.token /\ ~ last'.failed
        /\ save_conference(conferences, sqlite_seq,
                           RemoteConferenceData(conferences, last'.user,
                                                last'.data, last'.result),
                           clock).raised)
       => /\ last'.status = 200
          /\ ~ last'.error
          /\ last'.conf = last'.result
          /\ conferences' = conferences]_vars

\* the remote created a conference whose link is already stored, and the
\* caller got the remote conference
C12_Witness ==
    /\ last.op = "create" /\ last.token /\ ~ last.failed
    /\ last.status = 200
    /\ HasId(last.result)
    /\ last.conf = last.result
    /\ "name" \in DOMAIN last.data
    /\ \E r \in conferences : r.link = last.result.link

\* C13: after a create with a token that was saved, get_conference_by_id of
\* the id in the answer is the created conference: same name, link and
\* ownerId.
C13_StoredUnderReturnedId ==
    (/\ last.op = "create" /\ last.token /\ ~ last.failed
     /\ last.status = 200
     /\ "ownerId" \in DOMAIN last.conf)
    => \E c \in (IF HasId(last.result)
                 THEN get_conference_by_id_text(conferences, last.conf.id)
                 ELSE get_conference_by_id(conferences, last.conf.id)) :
           /\ c.name = last.conf.name
           /\ c.link = last.conf.link
           /\ c.ownerId = last.conf.ownerId

\* C14: no answer to a list, create or update request of caller U holds a
\* conference whose ownerId is not U.
C14_VisibilityByOwner ==
    /\ last.op = "list" => \A c \in last.body : c.ownerId = last.user
    /\ last.op = "create" =>
           ("ownerId" \in DOMAIN last.conf => last.conf.ownerId = last.user)
    /\ last.op = "update" =>
           /\ last.body = {}
           /\ "ownerId" \notin DOMAIN last.conf

\* a create was answered with the caller's conference while the repository
\* held a conference of another owner
C14_Witness ==
    /\ last.op = "create" /\ last.status = 200
    /\ "ownerId" \in DOMAIN last.conf
    /\ \E r \in conferences : r.owner_id # last.user

\* C15: the answer of a PUT and the repository after it are those of the
\* same request under every other outcome of the remote update.
C15_RemoteUpdateAdvisory ==
    [][Answered("update")
       => \A o \in UpdateOutcomes :
              LET r == UpdateRoute(conferences, last'.conf_id, last'.data,
                                   last'.token, o, clock)
              IN  /\ conferences' = r.rows
                  /\ last'.status = r.status
                  /\ last'.error = r.error
                  /\ last'.conf = r.conf]_vars

\* a PUT for a stored conference was answered after its remote update failed
C15_Witness ==
    /\ last.op = "update" /\ last.token /\ last.failed
    /\ \E r \in conferences : r.id = last.conf_id

\* C17: a create without token whose link is already stored is answered
\* with an error, and the rows are those from before: the stored one
\* unchanged, no new one.
C17_CollisionSurfaced ==
    [][\A w \in Workers :
           (/\ pc[w] = "save" /\ pc'[w] = "ready"
            /\ \E r \in conferences : r.link = local[w].conference_data.link)
           => /\ last'.op = "create" /\ ~ last'.token
              /\ last'.error
              /\ last'.status = 500
              /\ conferences' = conferences
              /\ sqlite_seq' = sqlite_seq]_vars

\* a create without token with a name was refused, and the link it had
\* computed belongs to a stored conference
C17_Witness ==
    /\ last.op = "create" /\ ~ last.token
    /\ last.error /\ last.status = 500
    /\ "name" \in DOMAIN last.data
    /\ \E r \in conferences :
           r.link = FallbackLink({x \in conferences : x.id # r.id}, last.user)

\* C16: the DELETE route sends nothing to the provider, and the client's
\* delete_conference sends nothing either and returns an error value.
C16_NoRemoteDelete ==
    /\ last.op = "delete" => last.sent = <<>>
    /\ last.op = "client_delete" =>
           /\ last.sent = <<>>
           /\ "error" \in DOMAIN last.result

\* C18: get_conference_by_id of the id save_conference returned equals the
\* saved conference_data in every field it has, the id included when one
\* was supplied.
C18_InsertGetRoundTrip ==
    (last.op = "save" /\ last.success)
    => \E c \in last.body : \A k \in DOMAIN last.data : c[k] = last.data[k]

\* When conference_data holds no id, the round trip gives back every field.
RoundTripWithoutId ==
    (last.op = "save" /\ last.success /\ "id" \notin DOMAIN last.data)
    => \E c \in last.body : \A k \in DOMAIN last.data : c[k] = last.data[k]

\* C19: database.update_conference with a payload holding a name returns
\* true for a stored id, and then the row has that name and a larger
\* updated_at; for an id that is not stored it returns false and changes
\* nothing.  It never raises.
C19_Update ==
    [][(Answered("db_update") /\ "name" \in DOMAIN last'.data)
       => /\ ~ last'.error
          /\ IF \E r \in conferences : r.id = last'.conf_id
             THEN /\ last'.success
                  /\ \E c \in last'.body : c.name = last'.data["name"]
                  /\ \A r \in conferences, n \in conferences' :
                         (r.id = last'.conf_id /\ n.id = last'.conf_id)
                         => n.updated_at > r.updated_at
             ELSE /\ ~ last'.success
                  /\ conferences' = conferences]_vars

\* C20: database.delete_conference removes the row with the id and no other
\* row, get_conference_by_id of the id is then none, it returns whether the
\* row was stored, and a delete repeated for the same id returns false.
C20_Delete ==
    [][Answered("db_delete")
       => /\ ~ last'.error
          /\ last'.body = {}
          /\ get_conference_by_id(conferences', last'.conf_id) = {}
          /\ conferences' = {r \in conferences : r.id # last'.conf_id}
          /\ last'.success = (\E r \in conferences : r.id = last'.conf_id)
          /\ (last.op = "db_delete" /\ last.conf_id = last'.conf_id)
                 => ~ last'.success]_vars

\* a delete was repeated for an id that had been stored, while another
\* conference was still stored
C20_Witness ==
    /\ last.op = "db_delete" /\ ~ last.success
    /\ last.conf_id <= sqlite_seq
    /\ conferences # {}

\* C21: save_conference of a conference_data whose link is the link of a
\* stored row raises, and the table is as it was: no row added, none
\* changed, no id used up.
C21_InsertRejectsCollision ==
    [][(/\ Answered("save")
        /\ Get(last'.data, "link", "") # None
        /\ \E r \in conferences : r.link = Get(last'.data, "link", ""))
       => /\ last'.error
          /\ conferences' = conferences
          /\ sqlite_seq' = sqlite_seq]_vars

\* a complete conference_data was refused while a row held its link
C21_Witness ==
    /\ last.op = "save" /\ last.error
    /\ {"name", "type", "ownerId", "link"} \subseteq DOMAIN last.data
    /\ \E r \in conferences : r.link = last.data["link"]

\* C26: no step changes the owner_id of a stored conference, be it found
\* again by its id or by its link.
C26_OwnerImmutable ==
    [][\A r \in conferences, n \in conferences' :
           (r.id = n.id \/ (r.link # None /\ r.link = n.link))
           => n.owner_id = r.owner_id]_vars

\* a caller listed a remote record that is stored for another caller
C26_Witness ==
    /\ last.op = "list" /\ last.token /\ ~ last.failed
    /\ \E i \in 1..Len(last.items) : \E r \in conferences :
           /\ WellFormed(last.items[i])
           /\ r.link = Get(last.items[i].d, "link", Get(last.items[i].d, "LINK", ""))
           /\ origin[r.id] = RemoteId(last.items[i])
           /\ r.owner_id # last.user

\* database.update_conference keeps the owner_id of every row, whatever
\* ownerId its payload holds.
OwnerKeptByUpdate ==
    [][Answered("db_update")
       => \A r \in conferences, n \in conferences' :
              r.id = n.id => n.owner_id = r.owner_id]_vars

\* C27: database.update_conference for a stored id does not raise, sets
\* the fields its payload holds and keeps the stored value of every field
\* the payload omits.
C27_PartialUpdateFrame ==
    [][(Answered("db_update") /\ \E r \in conferences : r.id = last'.conf_id)
       => /\ ~ last'.error
          /\ \A r \in conferences, n \in conferences' :
                 (r.id = last'.conf_id /\ n.id = last'.conf_id)
                 => \A k \in DOMAIN RowDict(r) \ {"id", "ownerId", "createdAt"} :
                        RowDict(n)[k] = IF k \in DOMAIN last'.data
                                        THEN last'.data[k]
                                        ELSE RowDict(r)[k]]_vars

\* C22: the conference client never raises across its public boundary:
\* api_call, get_conferences and delete_conference return a value or an error
\* value for every method, endpoint, token, payload and remote outcome.
C22_ClientNeverRaises ==
    last.op \in {"api_call", "client_list", "client_delete"} => ~ last.error

\* C23: api_call returns an error value carrying the status code if and only
\* if the response status is outside the 2xx range.
C23_StatusClassification ==
    (/\ last.op = "api_call"
     /\ last.sent # <<>>
     /\ last.data.outcome.body # "raise")
    => /\ last.failed <=> last.data.outcome.status \notin 200..299
       /\ last.failed => last.result.status_code = ToString(last.data.outcome.status)

\* C24: the body of a create request sent to the provider sets the
\* waiting-room level to public, holds a live-stream object if and only if
\* the type is broadcast, and its cohosts are the payload's cohost strings
\* that contain '@', in order, each wrapped as {email: ...}.
C24_CreatePayload ==
    (/\ last.op = "api_call"
     /\ last.data.method = "POST"
     /\ IsConferences(last.data.endpoint)
     /\ last.sent # <<>>)
    => LET body == last.sent[1].json
           kept == SelectSeq(Get(last.data.data, "cohosts", <<>>), HasAt)
           sent_cohosts == Get(body, "cohosts", <<>>)
       IN  /\ body.waiting_room_level = "PUBLIC"
           /\ "live_stream" \in DOMAIN body
                  <=> Get(last.data.data, "type", None) = "broadcast"
           /\ Len(sent_cohosts) = Len(kept)
           /\ \A i \in 1..Len(kept) : sent_cohosts[i] = [email |-> kept[i].v]

C24_Witness ==
    /\ last.op = "api_call"
    /\ last.data.method = "POST"
    /\ IsConferences(last.data.endpoint)
    /\ last.sent # <<>>
    /\ Get(last.data.data, "type", None) = "broadcast"
    /\ \E i, j \in 1..Len(Get(last.data.data, "cohosts", <<>>)) :
           /\ HasAt(last.data.data["cohosts"][i])
           /\ ~ HasAt(last.data.data["cohosts"][j])
    /\ last.sent[1].json["cohosts"] = <<[email |-> "ann@x.org"], [email |-> "bob@y.org"]>>
    /\ "live_stream" \in DOMAIN last.sent[1].json

C29_OnlyAdminsManage ==
    [][(/\ last'.op \in {"add_permission", "remove_permission"}
        /\ (last' # last \/ permissions' # permissions)
        /\ \A p \in permissions :
               ~ (/\ p.domain = last'.data.domain
                  /\ p.user_id = last'.user
                  /\ p.role = "admin"))
       => /\ permissions' = permissions
          /\ last'.status # 200]_vars

\* C30: add_initial_admin creates a permission only when the domain has no
\* permissions, whatever the interleaving of the handlers, so it creates at
\* most one permission per domain.
C30_SingleInitialAdmin ==
    [][\A w \in Workers :
           (pc[w] = "add" /\ pc'[w] = "ready" /\ permissions' # permissions)
           => get_bitrix24_permissions(permissions, local[w].domain) = {}]_vars

====
